---- MODULE Spec2Model ----
(***************************************************************************)
(* Stock / cart / order consistency of eCommerceDsNodeExpress (TypeScript, *)
(* MongoDB).  The persisted state is the Record, Cart and Order            *)
(* collections; every request handler is a sequence of steps, one per      *)
(* awaited database call, so that concurrent requests interleave exactly   *)
(* where the Node event loop lets them.                                    *)
(*                                                                         *)
(* Money is counted in thousandths of the currency unit (price 1.004 is    *)
(* 1004), so that "round to 2 decimal places" is a real conversion.        *)
(* Binary floating point error is not modelled.                            *)
(***************************************************************************)
EXTENDS Integers, Sequences, FiniteSets, TLC

\* ---------------------------------------------------------------- bounds
MaxOps == 3          \* requests served one after the other in one behaviour
MaxConc == 2         \* requests served in one behaviour with overlapping handlers
MaxAmount == 2       \* largest amount a request names
InitStock == 2       \* stock of every record at the start

Users == {"u1", "u2"}
Records == {"r1", "r2"}
Handlers == {"h1", "h2"}
Prices == {14, 20}
Amounts == (0 - 1)..MaxAmount
StockDeltas == (0 - MaxAmount)..MaxAmount

NoRecord == "none"

VARIABLES stock, price, carts, extra, orders, pc, req, loc, res, pre, nops

vars == <<stock, price, carts, extra, orders, pc, req, loc, res, pre, nops>>

\* ---------------------------------------------------------------- values
EmptyCart == [enabled |-> TRUE, items |-> <<>>, totalPrice |-> 0]

\* No cart document for the user: a query for an enabled cart finds none.
NoCart == [absent |-> TRUE, enabled |-> FALSE, items |-> <<>>, totalPrice |-> 0]

NoReq == [op |-> "none"]

\* Nothing loaded yet (loc) and nothing remembered (pre).
NoLoc == <<>>
NoPre == <<>>

\* The record l with field k set to v, added when l has no such field.
Put(l, k, v) == [f \in (DOMAIN l) \cup {k} |-> IF f = k THEN v ELSE l[f]]

Has(l, k) == k \in DOMAIN l

\* There is a cart document c.
Exists(c) == ~Has(c, "absent")

\* ---------------------------------------------------------------- helpers
\* Array.prototype.findIndex on item.recordId, 1-based; 0 when absent.
IndexOf(items, r) ==
  IF \E i \in 1..Len(items) : items[i].recordId = r
  THEN CHOOSE i \in 1..Len(items) :
         /\ items[i].recordId = r
         /\ \A j \in 1..(i - 1) : items[j].recordId # r
  ELSE 0

RECURSIVE SumItems(_)
SumItems(items) ==
  IF items = <<>> THEN 0
  ELSE items[1].amount * items[1].price + SumItems(Tail(items))

\* The amount of record r that the lines of a cart hold.
RECURSIVE AmountIn(_, _)
AmountIn(items, r) ==
  IF items = <<>> THEN 0
  ELSE (IF items[1].recordId = r THEN items[1].amount ELSE 0) + AmountIn(Tail(items), r)

\* Math.round(x * 100) / 100 on thousandths: Math.round is floor(x + 0.5).
Round2(x) == ((x + 5) \div 10) * 10

\* CartSchema.methods.recalculateTotal: the plain sum, not rounded.
RecalculateTotal(items) == SumItems(items)

\* addItemToCart's reduce followed by the rounding to 2 decimal places.
\* The total without the rounding step.
AddItemTotal_Unrounded(items) == SumItems(items)

AddItemTotal(items) == Round2(SumItems(items))

\* addItemToCart's stock test: true when the request must be refused.
\* The stock test letting one unit too many through.
NotEnoughStock_OffByOne(currentStock, amount) == currentStock + 1 < amount

\* The stock test left out.
NotEnoughStock_Never(currentStock, amount) == FALSE

NotEnoughStock(currentStock, amount) == currentStock < amount

\* ------------------------------------------------- mongoose save() deltas
\* A document loaded from the database and saved again writes only the
\* paths that were modified: $set for assigned values that differ from the
\* loaded ones, $push for Array.push, "items.<i>.<field>" for a change to
\* one element.  The Cart schema has versionKey: false, so no save is
\* refused because the document changed in between.  A pending save is a
\* record: kind ("none", "set", "push", "idx" for the items, "new" for an
\* insert), the fields enabled and total when those paths are modified,
\* items for "set" and "push", idx, amount and maybe price for "idx".
NullItem == [recordId |-> NoRecord, amount |-> 0, price |-> 0]

RECURSIVE PadTo(_, _)
PadTo(items, n) == IF Len(items) >= n THEN items ELSE PadTo(Append(items, NullItem), n)

SetElement(items, u) ==
  IF u.idx <= Len(items)
  THEN [items EXCEPT ![u.idx] =
          [@ EXCEPT !.amount = u.amount,
                    !.price = IF Has(u, "price") THEN u.price ELSE @]]
  ELSE Append(PadTo(items, u.idx - 1),
              [recordId |-> NoRecord, amount |-> u.amount,
               price |-> IF Has(u, "price") THEN u.price ELSE 0])

ApplyUpd(c, u) ==
  [enabled |-> IF Has(u, "enabled") THEN u.enabled ELSE c.enabled,
   totalPrice |-> IF Has(u, "total") THEN u.total ELSE c.totalPrice,
   items |-> CASE u.kind = "set" -> u.items
               [] u.kind = "push" -> c.items \o u.items
               [] u.kind = "idx" -> SetElement(c.items, u)
               [] OTHER -> c.items]

\* ---------------------------------------------------------------- Init
Init ==
  /\ stock = [r \in Records |-> InitStock]
  /\ price = [r \in Records |-> IF r = "r1" THEN 14 ELSE 20]
  /\ carts = [u \in Users |-> EmptyCart]
  /\ extra = [u \in Users |-> 0]
  /\ orders = <<>>
  /\ pc = [h \in Handlers |-> "idle"]
  /\ req = [h \in Handlers |-> NoReq]
  /\ loc = [h \in Handlers |-> NoLoc]
  /\ res = [h \in Handlers |-> "none"]
  /\ pre = [h \in Handlers |-> NoPre]
  /\ nops = 0

\* ---------------------------------------------------------------- requests
Requests ==
  [op : {"add", "removeByEmail"}, user : Users, rec : Records, amount : Amounts]
    \cup [op : {"remove"}, user : Users, rec : Records]
    \cup [op : {"clear", "disable", "enable", "disableByEmail", "convert", "create"},
          user : Users]
    \cup [op : {"updateStock"}, rec : Records, amount : StockDeltas]
    \cup [op : {"updateRecord"}, rec : Records, price : Prices]

\* The first step of the handler that serves each kind of request.
Entry(op) ==
  CASE op = "add" -> "add_rec"
    [] op = "removeByEmail" -> "rme_cart"
    [] op = "remove" -> "rm_cart"
    [] op = "clear" -> "clr_cart"
    [] op = "disable" -> "dis_cart"
    [] op = "enable" -> "en_upd"
    [] op = "disableByEmail" -> "de_upd"
    [] op = "convert" -> "ord_cart"
    [] op = "create" -> "cc_cart"
    [] op = "updateStock" -> "us_read"
    [] op = "updateRecord" -> "ur_upd"
    [] op = "deleteRecord" -> "del_rec"

Free(h) == pc[h] \in {"idle", "done"}

Begin(h, r, p, max) ==
  /\ nops < max
  /\ nops' = nops + 1
  /\ req' = [req EXCEPT ![h] = r]
  /\ pc' = [pc EXCEPT ![h] = Entry(r.op)]
  /\ loc' = [loc EXCEPT ![h] = NoLoc]
  /\ res' = [res EXCEPT ![h] = "none"]
  /\ pre' = [pre EXCEPT ![h] = p]
  /\ UNCHANGED <<stock, price, carts, extra, orders>>

\* A request arrives while other requests may be in flight.  Handlers are
\* interchangeable, so the second one is taken only while the first is busy.
Start(h) ==
  /\ Free(h)
  /\ h = "h2" => ~Free("h1")
  /\ \E r \in Requests : Begin(h, r, NoPre, MaxConc)

Found(r) ==
  IF r.op = "convert"
    THEN [stock |-> stock, cart |-> carts[r.user], norders |-> Len(orders)]
  ELSE IF Has(r, "user") THEN [stock |-> stock, cart |-> carts[r.user]]
  ELSE [stock |-> stock]

\* A request arrives when no other request is in flight; the state it finds
\* is remembered so that its effect can be compared with it.
SeqStart(h) ==
  /\ \A g \in Handlers : Free(g)
  /\ \E r \in Requests :
       Begin(h, r, Found(r), MaxOps)

Goto(h, label) ==
  /\ pc' = [pc EXCEPT ![h] = label]
  /\ req' = req

\* A request begun by SeqStart or OneStart is observed: its answer is kept
\* beside the state it found.
Observed(h) == pre[h] # NoPre

\* The handler answers; its local documents are dropped.
Finish(h, result) ==
  /\ pc' = [pc EXCEPT ![h] = IF Observed(h) THEN "done" ELSE "idle"]
  /\ res' = [res EXCEPT ![h] = IF Observed(h) THEN result ELSE "none"]
  /\ req' = [req EXCEPT ![h] = IF Observed(h) THEN @ ELSE NoReq]
  /\ loc' = [loc EXCEPT ![h] = NoLoc]

\* The handler has answered an observed request; the answer is a success.
Done(h) == pc[h] = "done"

Answered(h, op) == Done(h) /\ req[h].op = op /\ res[h] = "ok"

\* stock and price are the fields of the documents of the Record collection:
\* a record that has been deleted is in the domain of neither.
RecordExists(r) == r \in DOMAIN stock

\* The answer of a cart operation is getCartByUserId(userId) on the saved cart
\* c.  Its populate leaves null for an item whose record is gone and the
\* mapping then reads record.Group of null and throws.
Reply(c) ==
  IF \A i \in 1..Len(c.items) : RecordExists(c.items[i].recordId)
    THEN "ok" ELSE "error"

\* !amount || amount <= 0 in cartsController.addItem and
\* cartsController.removeItemFromCartByEmail.
\* Only a negative amount refused.
InvalidAmount_NegativeOnly(amount) == amount < 0

InvalidAmount(amount) == amount <= 0

\* The controller has refused the request before any database call.
Refused(h) ==
  pc[h] \in {"add_rec", "rme_cart"} /\ InvalidAmount(req[h].amount)

\* Any awaited database call may reject (StorageUnavailable, a validation
\* error, a timeout); every catch block of the handlers only logs and
\* rethrows or answers 500, none compensates.
Fail(h) ==
  /\ ~Free(h)
  /\ ~Refused(h)
  /\ Finish(h, "error")
  /\ UNCHANGED <<stock, price, carts, orders, pre, nops, extra>>

\* ------------------------------------------------------------- addItem
\* cartsController.addItem validation, then Record.findById and the stock
\* test of addItemToCart.
AddItemFindRecord(h) ==
  /\ pc[h] = "add_rec"
  /\ IF InvalidAmount(req[h].amount)
       THEN Finish(h, "invalid")
     ELSE IF ~RecordExists(req[h].rec)
       THEN Finish(h, "notfound")
     ELSE IF NotEnoughStock(stock[req[h].rec], req[h].amount)
       THEN Finish(h, "insufficient")
     ELSE /\ Goto(h, "add_cart")
          /\ loc' = [loc EXCEPT ![h] = [rstock |-> stock[req[h].rec],
                                         rprice |-> price[req[h].rec]]]
          /\ UNCHANGED res
  /\ UNCHANGED <<stock, price, carts, orders, pre, nops, extra>>

\* The line of an existing record keeping its first price.
AddItemUpd_KeepPrice(c, isNew, reset, r, amount, rprice) ==
  LET base == IF reset THEN <<>> ELSE c.items
      i == IndexOf(base, r)
      item == [recordId |-> r, amount |-> amount, price |-> rprice]
      items == IF i # 0
                 THEN [base EXCEPT ![i] = [@ EXCEPT !.amount = @ + amount]]
                 ELSE Append(base, item)
      total == AddItemTotal(items)
      edit == IF reset /\ c.items # <<>> THEN [kind |-> "set", items |-> items]
              ELSE IF i # 0
                THEN [kind |-> "idx", idx |-> i, amount |-> items[i].amount]
              ELSE [kind |-> "push", items |-> <<item>>]
      flag == IF c.enabled THEN edit ELSE Put(edit, "enabled", TRUE)
  IN IF isNew THEN [kind |-> "new", items |-> items, total |-> total]
     ELSE IF total # c.totalPrice THEN Put(flag, "total", total) ELSE flag

\* The in-memory edit of the cart document in addItemToCart: c is the loaded
\* document (EmptyCart for new Cart(...)), reset says the items were cleared.
AddItemUpd(c, isNew, reset, r, amount, rprice) ==
  LET base == IF reset THEN <<>> ELSE c.items
      i == IndexOf(base, r)
      item == [recordId |-> r, amount |-> amount, price |-> rprice]
      items == IF i # 0
                 THEN [base EXCEPT ![i] = [@ EXCEPT !.amount = @ + amount,
                                                    !.price = rprice]]
                 ELSE Append(base, item)
      total == AddItemTotal(items)
      edit == IF reset /\ c.items # <<>> THEN [kind |-> "set", items |-> items]
              ELSE IF i # 0
                THEN [kind |-> "idx", idx |-> i, amount |-> items[i].amount,
                      price |-> rprice]
              ELSE [kind |-> "push", items |-> <<item>>]
      flag == IF c.enabled THEN edit ELSE Put(edit, "enabled", TRUE)
  IN IF isNew THEN [kind |-> "new", items |-> items, total |-> total]
     ELSE IF total # c.totalPrice THEN Put(flag, "total", total) ELSE flag

\* Cart.findOne({ userId, enabled: true })
AddItemFindCart(h) ==
  /\ pc[h] = "add_cart"
  /\ IF carts[req[h].user].enabled
       THEN /\ loc' = [loc EXCEPT ![h] = Put(@, "upd",
                        AddItemUpd(carts[req[h].user], FALSE, FALSE, req[h].rec,
                                   req[h].amount, loc[h].rprice))]
            /\ Goto(h, "add_saverec")
       ELSE /\ Goto(h, "add_cart2")
            /\ UNCHANGED loc
  /\ UNCHANGED <<stock, price, carts, orders, res, pre, nops, extra>>

\* Cart.findOne({ userId, enabled: false }); new Cart(...) when none.
AddItemFindDisabled(h) ==
  /\ pc[h] = "add_cart2"
  /\ loc' = [loc EXCEPT ![h] = Put(@, "upd",
               IF Exists(carts[req[h].user]) /\ ~carts[req[h].user].enabled
                 THEN AddItemUpd(carts[req[h].user], FALSE, TRUE, req[h].rec,
                                 req[h].amount, loc[h].rprice)
                 ELSE AddItemUpd(EmptyCart, TRUE, FALSE, req[h].rec,
                                 req[h].amount, loc[h].rprice))]
  /\ Goto(h, "add_saverec")
  /\ UNCHANGED <<stock, price, carts, orders, res, pre, nops, extra>>

\* record.stock -= amount; await record.save()
AddItemSaveRecord(h) ==
  /\ pc[h] = "add_saverec"
  /\ stock' = [stock EXCEPT ![req[h].rec] = loc[h].rstock - req[h].amount]
  /\ Goto(h, "add_savecart")
  /\ UNCHANGED <<price, carts, orders, loc, res, pre, nops, extra>>

\* The index on userId taken as an ordinary one.
UserIdUnique_Off == FALSE

\* userId: { unique: true } of CartSchema.
UserIdUnique == TRUE

\* An insert of a cart for user u is refused (E11000) when the index is
\* unique and the user has a cart.
DuplicateKey(u) == UserIdUnique /\ Exists(carts[u])

\* The carts after the insert of the new, enabled cart of a pending save:
\* the user's cart when the user had none, else one more cart document of
\* that user, counted in extra.
InsertCart(u, upd) ==
  IF Exists(carts[u])
    THEN carts' = carts /\ extra' = [extra EXCEPT ![u] = @ + 1]
    ELSE /\ carts' = [carts EXCEPT ![u] = [enabled |-> TRUE, items |-> upd.items,
                                          totalPrice |-> upd.total]]
         /\ extra' = extra

\* await cart.save(): the update of the loaded cart, or the insert of the
\* new one.
AddItemSaveCart(h) ==
  /\ pc[h] = "add_savecart"
  /\ IF loc[h].upd.kind = "new"
       THEN IF DuplicateKey(req[h].user)
              THEN Finish(h, "error") /\ UNCHANGED <<carts, extra>>
              ELSE /\ InsertCart(req[h].user, loc[h].upd)
                   /\ Finish(h, Reply(ApplyUpd(EmptyCart, loc[h].upd)))
       ELSE /\ carts' = [carts EXCEPT ![req[h].user] = ApplyUpd(@, loc[h].upd)]
            /\ Finish(h, Reply(ApplyUpd(carts[req[h].user], loc[h].upd)))
            /\ UNCHANGED extra
  /\ UNCHANGED <<stock, price, orders, pre, nops>>

\* ------------------------------------------------- removeItemFromCartByEmail
RemoveAt(items, i) == SubSeq(items, 1, i - 1) \o SubSeq(items, i + 1, Len(items))

\* The line spliced out whatever amount is removed.
RemoveUpd_AlwaysSplice(c, i, amount) ==
  LET items == RemoveAt(c.items, i)
      total == RecalculateTotal(items)
      edit == [kind |-> "set", items |-> items]
  IN IF total # c.totalPrice THEN Put(edit, "total", total) ELSE edit

\* The line kept with what is left of its amount, even when nothing is left.
RemoveUpd_NeverSplice(c, i, amount) ==
  LET items == [c.items EXCEPT ![i] = [@ EXCEPT !.amount = @ - amount]]
      total == RecalculateTotal(items)
      edit == [kind |-> "idx", idx |-> i, amount |-> items[i].amount]
  IN IF total # c.totalPrice THEN Put(edit, "total", total) ELSE edit

\* The in-memory edit of removeItemFromCartByEmail: splice marks the whole
\* array modified, a smaller amount is a change to one element.
RemoveUpd(c, i, amount) ==
  LET whole == c.items[i].amount = amount
      items == IF whole THEN RemoveAt(c.items, i)
               ELSE [c.items EXCEPT ![i] = [@ EXCEPT !.amount = @ - amount]]
      total == RecalculateTotal(items)
      edit == IF whole THEN [kind |-> "set", items |-> items]
              ELSE [kind |-> "idx", idx |-> i, amount |-> items[i].amount]
  IN IF total # c.totalPrice THEN Put(edit, "total", total) ELSE edit

\* The test on the amount left out.
ExcessRemoval_Never(lineAmount, amount) == FALSE

\* itemToRemove.amount < amount
ExcessRemoval(lineAmount, amount) == lineAmount < amount

\* cartsController.removeItemFromCartByEmail validation, then User.findOne,
\* Cart.findOne({ enabled: true }) and the three tests of the service.
RemoveByEmailFindCart(h) ==
  LET c == carts[req[h].user]
      i == IndexOf(c.items, req[h].rec)
  IN /\ pc[h] = "rme_cart"
     /\ IF InvalidAmount(req[h].amount) THEN Finish(h, "invalid")
        ELSE IF ~c.enabled THEN Finish(h, "nocart")
        ELSE IF i = 0 THEN Finish(h, "noitem")
        ELSE IF ExcessRemoval(c.items[i].amount, req[h].amount)
          THEN Finish(h, "excess")
        ELSE /\ loc' = [loc EXCEPT ![h] = [upd |-> RemoveUpd(c, i, req[h].amount)]]
             /\ Goto(h, "rme_rec")
             /\ UNCHANGED res
     /\ UNCHANGED <<stock, price, carts, orders, pre, nops, extra>>

\* Record.findById(recordId)
RemoveByEmailFindRecord(h) ==
  /\ pc[h] = "rme_rec"
  /\ IF RecordExists(req[h].rec)
       THEN /\ loc' = [loc EXCEPT ![h] = Put(@, "rstock", stock[req[h].rec])]
            /\ Goto(h, "rme_saverec")
       ELSE /\ Goto(h, "rme_savecart")
            /\ UNCHANGED loc
  /\ UNCHANGED <<stock, price, carts, orders, res, pre, nops, extra>>

\* The record saved without the amount given back.
RemoveByEmailSaveRecord_NoRelease(h) ==
  /\ pc[h] = "rme_saverec"
  /\ stock' = stock
  /\ Goto(h, "rme_savecart")
  /\ UNCHANGED <<price, carts, orders, loc, res, pre, nops, extra>>

\* record.stock += amount; await record.save()
RemoveByEmailSaveRecord(h) ==
  /\ pc[h] = "rme_saverec"
  /\ stock' = [stock EXCEPT ![req[h].rec] = loc[h].rstock + req[h].amount]
  /\ Goto(h, "rme_savecart")
  /\ UNCHANGED <<price, carts, orders, loc, res, pre, nops, extra>>

\* cart.recalculateTotal(); await cart.save()
RemoveByEmailSaveCart(h) ==
  /\ pc[h] = "rme_savecart"
  /\ carts' = [carts EXCEPT ![req[h].user] = ApplyUpd(@, loc[h].upd)]
  /\ Finish(h, Reply(ApplyUpd(carts[req[h].user], loc[h].upd)))
  /\ UNCHANGED <<stock, price, orders, pre, nops, extra>>

\* ------------------------------------------------------ removeItemFromCart
\* Cart.findOne({ userId, enabled: true }) and findIndex; the whole line goes.
RemoveFindCart(h) ==
  LET c == carts[req[h].user]
      i == IndexOf(c.items, req[h].rec)
  IN /\ pc[h] = "rm_cart"
     /\ IF ~c.enabled THEN Finish(h, "nocart")
        ELSE IF i = 0 THEN Finish(h, "noitem")
        ELSE /\ loc' = [loc EXCEPT ![h] =
                          [upd |-> RemoveUpd(c, i, c.items[i].amount),
                           removed |-> c.items[i].amount]]
             /\ Goto(h, "rm_rec")
             /\ UNCHANGED res
     /\ UNCHANGED <<stock, price, carts, orders, pre, nops, extra>>

\* Record.findOne({ _id: recordId })
RemoveFindRecord(h) ==
  /\ pc[h] = "rm_rec"
  /\ IF RecordExists(req[h].rec)
       THEN /\ loc' = [loc EXCEPT ![h] = Put(@, "rstock", stock[req[h].rec])]
            /\ Goto(h, "rm_saverec")
       ELSE /\ Goto(h, "rm_savecart")
            /\ UNCHANGED loc
  /\ UNCHANGED <<stock, price, carts, orders, res, pre, nops, extra>>

\* Record.updateOne({ _id }, { $set: { stock: currentStock + removedItem.amount } })
RemoveUpdateRecord(h) ==
  /\ pc[h] = "rm_saverec"
  /\ stock' = [stock EXCEPT ![req[h].rec] = loc[h].rstock + loc[h].removed]
  /\ Goto(h, "rm_savecart")
  /\ UNCHANGED <<price, carts, orders, loc, res, pre, nops, extra>>

\* cart.items.splice(itemIndex, 1); cart.recalculateTotal(); await cart.save()
RemoveSaveCart(h) ==
  /\ pc[h] = "rm_savecart"
  /\ carts' = [carts EXCEPT ![req[h].user] = ApplyUpd(@, loc[h].upd)]
  /\ Finish(h, Reply(ApplyUpd(carts[req[h].user], loc[h].upd)))
  /\ UNCHANGED <<stock, price, orders, pre, nops, extra>>

\* ------------------------------------------------- clearCart and createCart
\* clearCart and createCart are also called by disableCart and by the
\* createOrder controller; Return is where each caller goes on.
Return(h) ==
  IF req[h].op = "disable"
    THEN Goto(h, "dis_save") /\ UNCHANGED <<res, loc>>
    ELSE Finish(h, "ok")

\* The cleared cart also switched off.
ClearUpd_AlsoDisables(c) ==
  LET edit == IF c.items # <<>>
                THEN [kind |-> "set", items |-> <<>>, enabled |-> FALSE]
                ELSE [kind |-> "none", enabled |-> FALSE]
  IN IF c.totalPrice # 0 THEN Put(edit, "total", 0) ELSE edit

\* cart.items = []; cart.recalculateTotal() on the loaded cart c.
ClearUpd(c) ==
  LET edit == IF c.items # <<>> THEN [kind |-> "set", items |-> <<>>]
              ELSE [kind |-> "none"]
      total == RecalculateTotal(<<>>)
  IN IF total # c.totalPrice THEN Put(edit, "total", total) ELSE edit

\* The request refused when there is no enabled cart.
ClearFindCart_NoCart(h) ==
  /\ pc[h] = "clr_cart"
  /\ IF carts[req[h].user].enabled
       THEN /\ loc' = [loc EXCEPT ![h] = [upd |-> ClearUpd(carts[req[h].user]),
                                           todo |-> carts[req[h].user].items]]
            /\ Goto(h, "clr_loop")
            /\ UNCHANGED res
       ELSE Finish(h, "nocart")
  /\ UNCHANGED <<stock, price, carts, orders, pre, nops, extra>>

\* Cart.findOne({ userId, enabled: true }); createCart when there is none.
ClearFindCart(h) ==
  /\ pc[h] = "clr_cart"
  /\ IF carts[req[h].user].enabled
       THEN /\ loc' = [loc EXCEPT ![h] = [upd |-> ClearUpd(carts[req[h].user]),
                                           todo |-> carts[req[h].user].items]]
            /\ Goto(h, "clr_loop")
       ELSE /\ Goto(h, "cc_cart")
            /\ UNCHANGED loc
  /\ UNCHANGED <<stock, price, carts, orders, res, pre, nops, extra>>

\* The loop body of clearCart: record.Stock += item.amount; record.save().
\* It assigns the path `Stock`, which findById does not load (select: false):
\* the sum is not a number and the path `stock` keeps its value, whether the
\* save resolves (this step) or rejects (Fail).
ReturnStock(st, item) == st

ClearReturnStock(h) ==
  /\ pc[h] = "clr_loop"
  /\ loc[h].todo # <<>>
  /\ stock' = ReturnStock(stock, Head(loc[h].todo))
  /\ loc' = [loc EXCEPT ![h] = Put(@, "todo", Tail(@.todo))]
  /\ UNCHANGED <<price, carts, orders, pc, req, res, pre, nops, extra>>

\* cart.items = []; cart.recalculateTotal(); await cart.save()
ClearSaveCart(h) ==
  /\ pc[h] = "clr_loop"
  /\ loc[h].todo = <<>>
  /\ carts' = [carts EXCEPT ![req[h].user] = ApplyUpd(@, loc[h].upd)]
  /\ Return(h)
  /\ UNCHANGED <<stock, price, orders, pre, nops, extra>>

\* createCart: User.findById, then Cart.findOne({ userId, enabled: true }).
CreateFindEnabled(h) ==
  /\ pc[h] = "cc_cart"
  /\ IF carts[req[h].user].enabled
       THEN Return(h)
       ELSE Goto(h, "cc_cart2") /\ UNCHANGED <<res, loc>>
  /\ UNCHANGED <<stock, price, carts, orders, pre, nops, extra>>

\* The disabled cart enabled again with what it held.
ReenableUpd_KeepItems(c) == [kind |-> "none", enabled |-> TRUE]

\* disabledCart.enabled = true; .items = []; .totalPrice = 0 on the loaded c.
ReenableUpd(c) ==
  LET edit == IF c.items # <<>>
                THEN [kind |-> "set", items |-> <<>>, enabled |-> TRUE]
                ELSE [kind |-> "none", enabled |-> TRUE]
  IN IF c.totalPrice # 0 THEN Put(edit, "total", 0) ELSE edit

\* Cart.findOne({ userId, enabled: false }); new Cart(...) when none.
CreateFindDisabled(h) ==
  /\ pc[h] = "cc_cart2"
  /\ loc' = [loc EXCEPT ![h] =
               [upd |-> IF Exists(carts[req[h].user]) /\ ~carts[req[h].user].enabled
                          THEN ReenableUpd(carts[req[h].user])
                          ELSE [kind |-> "new", items |-> <<>>, total |-> 0]]]
  /\ Goto(h, "cc_save")
  /\ UNCHANGED <<stock, price, carts, orders, res, pre, nops, extra>>

\* await disabledCart.save(), or await newCart.save().
CreateSave(h) ==
  /\ pc[h] = "cc_save"
  /\ IF loc[h].upd.kind = "new"
       THEN IF DuplicateKey(req[h].user)
              THEN Finish(h, "error") /\ UNCHANGED <<carts, extra>>
              ELSE InsertCart(req[h].user, loc[h].upd) /\ Return(h)
       ELSE /\ carts' = [carts EXCEPT ![req[h].user] = ApplyUpd(@, loc[h].upd)]
            /\ Return(h)
            /\ UNCHANGED extra
  /\ UNCHANGED <<stock, price, orders, pre, nops>>

\* ------------------------------------------------------------- disableCart
\* Cart.findOne({ userId, enabled: true }), then clearCart(userId).
DisableFindCart(h) ==
  /\ pc[h] = "dis_cart"
  /\ IF carts[req[h].user].enabled
       THEN Goto(h, "clr_cart") /\ UNCHANGED <<res, loc>>
       ELSE Finish(h, "nocart")
  /\ UNCHANGED <<stock, price, carts, orders, pre, nops, extra>>

\* cart.enabled = false; await cart.save() on the document loaded first:
\* only the path `enabled` is modified.
DisableSave(h) ==
  /\ pc[h] = "dis_save"
  /\ carts' = [carts EXCEPT ![req[h].user].enabled = FALSE]
  /\ Finish(h, "ok")
  /\ UNCHANGED <<stock, price, orders, pre, nops, extra>>

\* ------------------------------------- enableCartByEmail, disableCartByEmail
\* Cart.findOneAndUpdate({ userId }, { $set: { enabled: true } })
EnableCartByEmail(h) ==
  /\ pc[h] = "en_upd"
  /\ IF Exists(carts[req[h].user])
       THEN /\ carts' = [carts EXCEPT ![req[h].user].enabled = TRUE]
            /\ Finish(h, "ok")
       ELSE Finish(h, "nocart") /\ UNCHANGED carts
  /\ UNCHANGED <<stock, price, orders, pre, nops, extra>>

\* Cart.findOneAndUpdate({ userId }, { $set: { enabled: false } })
DisableCartByEmail(h) ==
  /\ pc[h] = "de_upd"
  /\ IF Exists(carts[req[h].user])
       THEN /\ carts' = [carts EXCEPT ![req[h].user].enabled = FALSE]
            /\ Finish(h, "ok")
       ELSE Finish(h, "nocart") /\ UNCHANGED carts
  /\ UNCHANGED <<stock, price, orders, pre, nops, extra>>

\* ------------------------------------------------------------- createOrder
\* getCartByUserId: the lean cart with every item mapped to recordId, amount
\* and the line's own price; the record's live price pr goes to recordDetails,
\* which createOrder does not copy.
\* The items priced from the records instead of from the lines.
GetCartByUserId_LivePrice(c, pr) ==
  [items |-> [i \in 1..Len(c.items) |->
                [recordId |-> c.items[i].recordId,
                 amount |-> c.items[i].amount,
                 price |-> pr[c.items[i].recordId]]],
   totalPrice |-> c.totalPrice]

GetCartByUserId(c, pr) ==
  [items |-> [i \in 1..Len(c.items) |->
                [recordId |-> c.items[i].recordId,
                 amount |-> c.items[i].amount,
                 price |-> c.items[i].price]],
   totalPrice |-> c.totalPrice]

\* The items left out of the test.
NoCartOrEmpty_ItemsIgnored(found, items) == ~found

\* !cart || cart.items.length === 0, the test the controller and the service
\* both make; found is whether there is a cart at all.
NoCartOrEmpty(found, items) == ~found \/ items = <<>>

\* ordersController.createOrder: User.findOne, cartService.getCartByUserId and
\* the empty-cart test.  An item without a record makes the populate mapping
\* throw.
OrderReadCart(h) ==
  LET c == carts[req[h].user]
  IN /\ pc[h] = "ord_cart"
     /\ IF NoCartOrEmpty(c.enabled, c.items) THEN Finish(h, "empty")
        ELSE IF \E i \in 1..Len(c.items) : ~RecordExists(c.items[i].recordId)
          THEN Finish(h, "error")
        ELSE /\ loc' = [loc EXCEPT ![h] = [snap |-> GetCartByUserId(c, price)]]
             /\ Goto(h, "ord_save")
             /\ UNCHANGED res
     /\ UNCHANGED <<stock, price, carts, orders, pre, nops, extra>>

\* new Order({ userId, items: orderItems, total: cart.totalPrice })
NewOrder(u, snap) == [userId |-> u, items |-> snap.items, total |-> snap.totalPrice]

\* await order.save()
\* The order built but not stored.
SaveOrder_Dropped(os, o) == os

SaveOrder(os, o) == Append(os, o)

\* orderService.createOrder up to order.save(): the service's own empty-cart
\* test, then the save; OrderItemSchema refuses an amount below 1.
OrderSave(h) ==
  /\ pc[h] = "ord_save"
  /\ IF \/ NoCartOrEmpty(TRUE, loc[h].snap.items)
        \/ \E i \in 1..Len(loc[h].snap.items) : loc[h].snap.items[i].amount < 1
       THEN Finish(h, "error") /\ UNCHANGED orders
       ELSE /\ orders' = SaveOrder(orders, NewOrder(req[h].user, loc[h].snap))
            /\ Goto(h, "ord_upd")
            /\ UNCHANGED <<res, loc>>
  /\ UNCHANGED <<stock, price, carts, pre, nops, extra>>

\* Cart.findByIdAndUpdate(cart._id, { $set: { items: [], totalPrice: 0,
\* enabled: false } }); the controller then calls cartService.clearCart.
\* The conversion also giving the ordered amounts back to the stock.
OrderUpdateCart_Refund(h) ==
  /\ pc[h] = "ord_upd"
  /\ carts' = [carts EXCEPT ![req[h].user] =
                 [enabled |-> FALSE, items |-> <<>>, totalPrice |-> 0]]
  /\ stock' = [r \in Records |-> stock[r] + AmountIn(loc[h].snap.items, r)]
  /\ Goto(h, "clr_cart")
  /\ UNCHANGED <<price, orders, loc, res, pre, nops, extra>>

OrderUpdateCart(h) ==
  /\ pc[h] = "ord_upd"
  /\ carts' = [carts EXCEPT ![req[h].user] =
                 [enabled |-> FALSE, items |-> <<>>, totalPrice |-> 0]]
  /\ Goto(h, "clr_cart")
  /\ UNCHANGED <<stock, price, orders, loc, res, pre, nops, extra>>

\* ------------------------------------------------------------- updateStock
\* recordService.updateStock: Record.findById(id).lean() and the decrease test.
UpdateStockRead(h) ==
  /\ pc[h] = "us_read"
  /\ IF ~RecordExists(req[h].rec)
       THEN Finish(h, "notfound")
     ELSE IF req[h].amount < 0 /\ (0 - req[h].amount) > stock[req[h].rec]
       THEN Finish(h, "insufficient")
       ELSE /\ loc' = [loc EXCEPT ![h] = [rstock |-> stock[req[h].rec]]]
            /\ Goto(h, "us_write")
            /\ UNCHANGED res
  /\ UNCHANGED <<stock, price, carts, orders, pre, nops, extra>>

\* Record.updateOne({ _id: id }, { $set: { stock: currentStock + amount } })
UpdateStockWrite(h) ==
  /\ pc[h] = "us_write"
  /\ stock' = [stock EXCEPT ![req[h].rec] = loc[h].rstock + req[h].amount]
  /\ Finish(h, "ok")
  /\ UNCHANGED <<price, carts, orders, pre, nops, extra>>

\* recordService.update with a new price: Record.findByIdAndUpdate.
UpdateRecord(h) ==
  /\ pc[h] = "ur_upd"
  /\ IF RecordExists(req[h].rec)
       THEN /\ price' = [price EXCEPT ![req[h].rec] = req[h].price]
            /\ Finish(h, "ok")
       ELSE /\ Finish(h, "notfound")
            /\ UNCHANGED price
  /\ UNCHANGED <<stock, carts, orders, pre, nops, extra>>

\* recordsController.deleteRecord, recordService.remove:
\* Record.findByIdAndDelete(id).  No cart and no order is touched.
DeleteRecord(h) ==
  /\ pc[h] = "del_rec"
  /\ IF RecordExists(req[h].rec)
       THEN /\ stock' = [r \in DOMAIN stock \ {req[h].rec} |-> stock[r]]
            /\ price' = [r \in DOMAIN price \ {req[h].rec} |-> price[r]]
            /\ Finish(h, "ok")
       ELSE /\ Finish(h, "notfound")
            /\ UNCHANGED <<stock, price>>
  /\ UNCHANGED <<carts, orders, pre, nops, extra>>

\* populate("items.recordId", ...) with its transform: the reference becomes
\* the record's _id and title; amount and price stay those of the order item.
\* The listed price read from the record.
Populate_LivePrice(item) ==
  [recordId |-> item.recordId, amount |-> item.amount, price |-> price[item.recordId]]

Populate(item) ==
  [recordId |-> item.recordId, amount |-> item.amount, price |-> item.price]

\* sort({ orderDate: -1 }) of the orders found, their items populated.
RECURSIVE ListOrders(_)
ListOrders(os) ==
  IF os = <<>> THEN <<>>
  ELSE LET o == os[Len(os)]
       IN <<[userId |-> o.userId,
             items |-> [i \in 1..Len(o.items) |-> Populate(o.items[i])],
             total |-> o.total]>> \o ListOrders(SubSeq(os, 1, Len(os) - 1))

\* Order.find({ userId })
GetOrdersByUserId(u) ==
  LET Mine(o) == o.userId = u IN ListOrders(SelectSeq(orders, Mine))

\* Order.find()
GetAllOrders == ListOrders(orders)

\* ---------------------------------------------------------- specifications
Step(h) ==
  \/ AddItemFindRecord(h) \/ AddItemFindCart(h) \/ AddItemFindDisabled(h)
  \/ AddItemSaveRecord(h) \/ AddItemSaveCart(h)
  \/ RemoveByEmailFindCart(h) \/ RemoveByEmailFindRecord(h)
  \/ RemoveByEmailSaveRecord(h) \/ RemoveByEmailSaveCart(h)
  \/ RemoveFindCart(h) \/ RemoveFindRecord(h) \/ RemoveUpdateRecord(h)
  \/ RemoveSaveCart(h)
  \/ ClearFindCart(h) \/ ClearReturnStock(h) \/ ClearSaveCart(h)
  \/ CreateFindEnabled(h) \/ CreateFindDisabled(h) \/ CreateSave(h)
  \/ DisableFindCart(h) \/ DisableSave(h)
  \/ EnableCartByEmail(h) \/ DisableCartByEmail(h)
  \/ OrderReadCart(h) \/ OrderSave(h) \/ OrderUpdateCart(h)
  \/ UpdateStockRead(h) \/ UpdateStockWrite(h) \/ UpdateRecord(h)

\* Concurrent request handlers with storage failures.
Next == \E h \in Handlers : Start(h) \/ Step(h) \/ Fail(h)

Spec == Init /\ [][Next]_vars

\* One request at a time, served to its end before the next arrives.
SeqNext == SeqStart("h1") \/ Step("h1") \/ Fail("h1")

SeqSpec == Init /\ [][SeqNext]_vars

\* As Init, with user u2 just saved by createUser and its cart not created
\* yet: the createCart that createUser goes on with is a create request.
NewInit ==
  /\ stock = [r \in Records |-> InitStock]
  /\ price = [r \in Records |-> IF r = "r1" THEN 14 ELSE 20]
  /\ carts = [u \in Users |-> IF u = "u1" THEN EmptyCart ELSE NoCart]
  /\ extra = [u \in Users |-> 0]
  /\ orders = <<>>
  /\ pc = [h \in Handlers |-> "idle"]
  /\ req = [h \in Handlers |-> NoReq]
  /\ loc = [h \in Handlers |-> NoLoc]
  /\ res = [h \in Handlers |-> "none"]
  /\ pre = [h \in Handlers |-> NoPre]
  /\ nops = 0

NewSpec == NewInit /\ [][Next]_vars

NewSeqSpec == NewInit /\ [][SeqNext]_vars

\* Each handler serves one reserving request (an addItem with a positive
\* amount or an updateStock that takes stock away), the two overlapping
\* freely, with no storage failure; the answers are kept.
Reserving ==
  {r \in Requests : \/ r.op = "add" /\ r.amount > 0
                    \/ r.op = "updateStock" /\ r.amount < 0}

OneStart(h) ==
  /\ pc[h] = "idle"
  /\ \E r \in Reserving : Begin(h, r, Found(r), MaxConc)

OneNext ==
  \E h \in Handlers :
    \/ OneStart(h)
    \/ AddItemFindRecord(h) \/ AddItemFindCart(h)
    \/ AddItemSaveRecord(h) \/ AddItemSaveCart(h)
    \/ UpdateStockRead(h) \/ UpdateStockWrite(h)

OneSpec == Init /\ [][OneNext]_vars

\* One addItem with a positive amount is served to its end, then createOrder
\* requests arrive, overlapping freely and with storage failures, so that a
\* cart is filled at most once in a run; the answers are kept.  No cart gets
\* a line after a conversion has emptied it, so the clearCart that follows a
\* conversion has no stock to return.
Filling == {r \in Requests : r.op = "add" /\ r.amount > 0}

Converting == {r \in Requests : r.op = "convert"}

OrdStart(h) ==
  /\ Free(h)
  /\ IF nops = 0
       THEN h = "h1" /\ \E r \in Filling : Begin(h, r, Found(r), MaxOps)
       ELSE /\ \A g \in Handlers : req[g].op = "add" => Free(g)
            /\ \E r \in Converting : Begin(h, r, Found(r), MaxOps)

OrdNext ==
  \E h \in Handlers :
    \/ OrdStart(h) \/ Fail(h)
    \/ AddItemFindRecord(h) \/ AddItemFindCart(h)
    \/ AddItemSaveRecord(h) \/ AddItemSaveCart(h)
    \/ OrderReadCart(h) \/ OrderSave(h) \/ OrderUpdateCart(h)
    \/ ClearFindCart(h) \/ ClearSaveCart(h)
    \/ CreateFindEnabled(h) \/ CreateFindDisabled(h) \/ CreateSave(h)

OrdSpec == Init /\ [][OrdNext]_vars

\* Requests one at a time as in SeqSpec, where an answered addItem may be
\* followed by the removal by email of the same amount of the same record
\* from the same cart; that removal keeps the state the addItem found and
\* the addItem itself beside its answer.
RoundStart(h) ==
  /\ Answered(h, "add")
  /\ Begin(h, [op |-> "removeByEmail", user |-> req[h].user, rec |-> req[h].rec,
               amount |-> req[h].amount],
           Put(pre[h], "add", req[h]), MaxOps)

RoundNext == SeqNext \/ RoundStart("h1")

RoundSpec == Init /\ [][RoundNext]_vars

\* One request at a time on a catalogue from which records are also deleted.
DelStart(h) ==
  /\ \A g \in Handlers : Free(g)
  /\ \E r \in Requests \cup [op : {"deleteRecord"}, rec : Records] :
       Begin(h, r, Found(r), MaxOps)

DelNext == DelStart("h1") \/ Step("h1") \/ DeleteRecord("h1") \/ Fail("h1")

DelSpec == Init /\ [][DelNext]_vars

\* ------------------------------------------------------------ properties
\* What the answered request of handler h took from the stock of record r.
Taken(h, r) ==
  IF res[h] = "ok" /\ req[h].op \in {"add", "updateStock"} /\ req[h].rec = r
    THEN (IF req[h].op = "add" THEN req[h].amount ELSE 0 - req[h].amount)
    ELSE 0

\* What the answered addItem of handler h put into the cart of u for record r.
Added(h, u, r) ==
  IF req[h].user = u /\ req[h].rec = r THEN req[h].amount ELSE 0

RECURSIVE SumOver(_, _, _)
SumOver(S, F(_, _), r) ==
  IF S = {} THEN 0
  ELSE LET h == CHOOSE x \in S : TRUE IN F(h, r) + SumOver(S \ {h}, F, r)

\* C1: once all overlapping reserving calls (addItem, stock-decreasing
\* updateStock) have answered, every call either succeeded or was refused
\* for insufficient stock, the successful ones together took no more than
\* the stock there was, and the stock left is the initial stock minus what
\* they took.
C1_NoOverselling ==
  (\A h \in Handlers : Done(h)) =>
    /\ \A h \in Handlers : res[h] \in {"ok", "insufficient"}
    /\ \A r \in Records :
         /\ SumOver(Handlers, Taken, r) <= InitStock
         /\ stock[r] = InitStock - SumOver(Handlers, Taken, r)

\* C2: the stock of every record is at least zero in every reachable state,
\* under every interleaving of the handlers.
C2_StockNonNegative == \A r \in Records : stock[r] >= 0

C2_Witness ==
  \E r \in Records : stock[r] = 0 /\ \E u \in Users : AmountIn(carts[u].items, r) > 0

\* C3: when two overlapping addItem calls for the same user have both
\* succeeded, the cart holds, for every record, the amounts both added, and
\* its totalPrice is the total of its lines (as addItem computes it, rounded
\* to 2 decimals).
C3_BothAddsReflected ==
  \A u \in Users :
    (\A h \in Handlers : Answered(h, "add") /\ req[h].user = u) =>
      /\ \A r \in Records :
           AmountIn(carts[u].items, r)
             = Added("h1", u, r) + Added("h2", u, r)
      /\ carts[u].totalPrice = AddItemTotal(carts[u].items)

C5_CartRetiredAfterConvert ==
  \A h \in Handlers :
    Answered(h, "convert") =>
      carts[req[h].user] = [enabled |-> FALSE, items |-> <<>>, totalPrice |-> 0]

\* C6: an addItem that does not succeed leaves the stock of its record as
\* the request found it.
C6_FailedAddRestoresStock ==
  \A h \in Handlers :
    Done(h) /\ req[h].op = "add" /\ res[h] # "ok" =>
      stock[req[h].rec] = pre[h].stock[req[h].rec]

\* C7: a successful clearCart on an enabled cart adds to the stock of every
\* record the amount the cart held of it, and leaves the cart with no items
\* and totalPrice 0.
C7_ClearReleasesStock ==
  \A h \in Handlers :
    Answered(h, "clear") /\ pre[h].cart.enabled =>
      /\ \A r \in Records :
           stock[r] = pre[h].stock[r] + AmountIn(pre[h].cart.items, r)
      /\ carts[req[h].user].items = <<>>
      /\ carts[req[h].user].totalPrice = 0

\* C8: a successful createOrder request adds one order whose items are the
\* lines the cart had when the request arrived (recordId, amount and the
\* line's own price) and whose total is the cart's totalPrice at that time.
C8_OrderCopiesCart ==
  \A h \in Handlers :
    Answered(h, "convert") =>
      /\ orders # <<>>
      /\ orders[Len(orders)].userId = req[h].user
      /\ orders[Len(orders)].items = pre[h].cart.items
      /\ orders[Len(orders)].total = pre[h].cart.totalPrice

C8_Witness ==
  /\ Answered("h1", "convert")
  /\ \E i \in 1..Len(orders[Len(orders)].items) :
       orders[Len(orders)].items[i].price
         # price[orders[Len(orders)].items[i].recordId]

\* The handler h takes the step.
Moved(h) == pc'[h] # pc[h] \/ loc'[h] # loc[h]

\* C9: no step of a createOrder request, to its answer or its failure,
\* changes the stock of any record.
C9_ConvertKeepsStock ==
  [][\A h \in Handlers : req[h].op = "convert" /\ Moved(h) => stock' = stock]_vars

C9_Witness ==
  \E h \in Handlers :
    /\ req[h].op = "convert" /\ pc[h] = "cc_save"
    /\ orders # <<>>
    /\ \E r \in Records : stock[r] < InitStock

\* C10: whenever a createOrder request has emptied the cart, the order it
\* made of the cart is stored.
C10_OrderBeforeCart ==
  \A h \in Handlers :
    req[h].op = "convert" /\ pc[h] = "clr_cart" =>
      \E i \in 1..Len(orders) : orders[i] = NewOrder(req[h].user, loc[h].snap)

C10_Witness ==
  \E h \in Handlers :
    /\ req[h].op = "convert" /\ pc[h] = "clr_cart"
    /\ carts[req[h].user].items = <<>>
    /\ loc[h].snap.items # <<>>

\* The orders stored for user u.
OrdersOf(u) == {i \in 1..Len(orders) : orders[i].userId = u}

\* C11: when a user's cart is filled once, at most one order is created for
\* it, however many createOrder requests run on it, at the same time or one
\* after a failed other.
C11_OneOrderPerCart ==
  \A u \in Users : Cardinality(OrdersOf(u)) <= 1

\* C12: a createOrder request for a user whose enabled cart has no items is
\* refused as an empty cart (or fails on storage), stores no order and
\* leaves the cart and every stock as it found them.
C12_EmptyCartRefused ==
  \A h \in Handlers :
    Done(h) /\ req[h].op = "convert"
      /\ pre[h].cart.enabled /\ pre[h].cart.items = <<>> =>
      /\ res[h] \in {"empty", "error"}
      /\ Len(orders) = pre[h].norders
      /\ carts[req[h].user] = pre[h].cart
      /\ stock = pre[h].stock

C12_Witness ==
  /\ Done("h1") /\ req["h1"].op = "convert" /\ res["h1"] = "empty"
  /\ pre["h1"].cart.enabled /\ pre["h1"].cart.items = <<>>
  /\ \E u \in Users : carts[u].items # <<>>

\* C13: an addItem asking for more than the stock its record has is refused
\* for insufficient stock (or fails on storage) and changes nothing: every
\* stock and the user's cart, enabled or not, are as the request found them.
C13_InsufficientStockNoEffect ==
  \A h \in Handlers :
    Done(h) /\ req[h].op = "add" /\ req[h].amount > pre[h].stock[req[h].rec] =>
      /\ res[h] \in {"insufficient", "error"}
      /\ stock = pre[h].stock
      /\ carts[req[h].user] = pre[h].cart

C13_Witness ==
  /\ Done("h1") /\ req["h1"].op = "add" /\ res["h1"] = "insufficient"
  /\ req["h1"].amount > pre["h1"].stock[req["h1"].rec]
  /\ ~pre["h1"].cart.enabled

\* C14: a removal by email of more than the line holds is refused as an
\* excess removal (or fails on storage) and changes nothing: the cart and
\* every stock are as the request found them.
C14_ExcessRemovalNoEffect ==
  \A h \in Handlers :
    LET i == IndexOf(pre[h].cart.items, req[h].rec)
    IN Done(h) /\ req[h].op = "removeByEmail" /\ pre[h].cart.enabled
         /\ i # 0 /\ req[h].amount > pre[h].cart.items[i].amount =>
         /\ res[h] \in {"excess", "error"}
         /\ carts[req[h].user] = pre[h].cart
         /\ stock = pre[h].stock

C14_Witness ==
  /\ Done("h1") /\ req["h1"].op = "removeByEmail" /\ res["h1"] = "excess"
  /\ Len(carts[req["h1"].user].items) = 2

\* The removal answered by handler h undoes the addItem before it.
RoundTrip(h) == Answered(h, "removeByEmail") /\ Has(pre[h], "add")

\* C15 as stated: an addItem followed by the removal of the same amount of
\* the same record restores the record's stock and leaves the cart with no
\* line for the record.
C15_RoundTripNoLine ==
  \A h \in Handlers :
    RoundTrip(h) =>
      /\ stock[req[h].rec] = pre[h].stock[req[h].rec]
      /\ IndexOf(carts[req[h].user].items, req[h].rec) = 0

\* C15 amended: the round trip restores the record's stock and leaves the
\* cart holding the amount of the record that the user's enabled cart held
\* before the addItem: no line when it held none (or was disabled).
C15_RoundTripRestores ==
  \A h \in Handlers :
    RoundTrip(h) =>
      /\ stock[req[h].rec] = pre[h].stock[req[h].rec]
      /\ AmountIn(carts[req[h].user].items, req[h].rec)
           = (IF pre[h].cart.enabled
                THEN AmountIn(pre[h].cart.items, req[h].rec) ELSE 0)
      /\ AmountIn(carts[req[h].user].items, req[h].rec) = 0
           => IndexOf(carts[req[h].user].items, req[h].rec) = 0

C15_Witness ==
  /\ RoundTrip("h1")
  /\ pre["h1"].cart.enabled
  /\ AmountIn(pre["h1"].cart.items, req["h1"].rec) > 0
  /\ stock[req["h1"].rec] < InitStock

\* C16: a successful disabling of an enabled cart, by disableCart or by the
\* disable-by-email request, gives every line's amount back to the stock of
\* its record and leaves the cart disabled with no items and totalPrice 0.
C16_DisableClearsAndReleases ==
  \A h \in Handlers :
    (Answered(h, "disable") \/ Answered(h, "disableByEmail"))
      /\ pre[h].cart.enabled =>
      /\ \A r \in Records :
           stock[r] = pre[h].stock[r] + AmountIn(pre[h].cart.items, r)
      /\ carts[req[h].user] = [enabled |-> FALSE, items |-> <<>>, totalPrice |-> 0]

\* C17: a successful createCart returns the user's enabled cart unchanged
\* when there is one; else it enables the user's disabled cart, with no items
\* and totalPrice 0; else it creates an enabled cart with no items.  In each
\* case the user has that one cart and no further one.
C17_GetOrCreate ==
  \A h \in Handlers :
    Answered(h, "create") =>
      /\ carts[req[h].user] = (IF pre[h].cart.enabled THEN pre[h].cart ELSE EmptyCart)
      /\ extra[req[h].user] = 0

C17_Witness ==
  /\ Answered("h1", "create")
  /\ Exists(pre["h1"].cart) /\ ~pre["h1"].cart.enabled
  /\ pre["h1"].cart.items # <<>>
  /\ \E u \in Users : ~Exists(carts[u])

\* C18: whenever a disabled cart becomes enabled it is the same cart document
\* and holds nothing of what it held while disabled: it has no items and
\* totalPrice 0, or, when an addItem enables it, only the line of that addItem.
C18_ReenabledCartIsReset ==
  [][\A u \in Users :
       Exists(carts[u]) /\ ~carts[u].enabled /\ carts'[u].enabled =>
         /\ extra'[u] = extra[u]
         /\ \/ carts'[u].items = <<>> /\ carts'[u].totalPrice = 0
            \/ \E h \in Handlers :
                 /\ req[h].op = "add" /\ req[h].user = u
                 /\ Len(carts'[u].items) = 1
                 /\ carts'[u].items[1].recordId = req[h].rec
                 /\ carts'[u].items[1].amount = req[h].amount]_vars

\* The enabled cart documents of user u.
EnabledCarts(u) == (IF carts[u].enabled THEN 1 ELSE 0) + extra[u]

\* C19: in every state each user has at most one enabled cart, also when
\* requests that create a cart for a user who has none overlap.
C19_OneEnabledCart ==
  \A u \in Users : EnabledCarts(u) <= 1

C19_Witness ==
  \E h \in Handlers :
    /\ pc[h] \in {"cc_save", "add_savecart"}
    /\ loc[h].upd.kind = "new"
    /\ carts[req[h].user].enabled

\* C20: a successful addItem of n of record p takes n from the stock of p and
\* no other stock, and in the cart (the one found enabled; a cart it enables
\* or creates starts with no items) the line of p has n more and the price p
\* has now, or is appended with amount n and that price when there was none;
\* every other line is as it was.
C20_AddItemEffect ==
  \A h \in Handlers :
    Answered(h, "add") =>
      LET p == req[h].rec
          n == req[h].amount
          base == IF pre[h].cart.enabled THEN pre[h].cart.items ELSE <<>>
          i == IndexOf(base, p)
      IN /\ stock = [pre[h].stock EXCEPT ![p] = @ - n]
         /\ carts[req[h].user].enabled
         /\ carts[req[h].user].items =
              (IF i # 0
                 THEN [base EXCEPT ![i] = [recordId |-> p, amount |-> base[i].amount + n,
                                           price |-> price[p]]]
                 ELSE Append(base, [recordId |-> p, amount |-> n, price |-> price[p]]))

C20_Witness ==
  /\ Answered("h1", "add")
  /\ pre["h1"].cart.enabled
  /\ \E i \in 1..Len(pre["h1"].cart.items) :
       /\ pre["h1"].cart.items[i].recordId = req["h1"].rec
       /\ pre["h1"].cart.items[i].price # price[req["h1"].rec]

\* C21: a successful removal by email of n of record p gives n back to the
\* stock of p and to no other stock, and takes n from the line of p, the
\* line going when n is all it held; a successful removal without an amount
\* takes the whole line and gives all it held back to the stock of p.  Every
\* other line is as it was.
C21_RemoveItemEffect ==
  \A h \in Handlers :
    LET p == req[h].rec
        old == pre[h].cart.items
        i == IndexOf(old, p)
        n == IF req[h].op = "remove" THEN old[i].amount ELSE req[h].amount
    IN Answered(h, "removeByEmail") \/ Answered(h, "remove") =>
         /\ i # 0
         /\ stock = [pre[h].stock EXCEPT ![p] = @ + n]
         /\ carts[req[h].user].items =
              (IF old[i].amount = n THEN RemoveAt(old, i)
               ELSE [old EXCEPT ![i] = [@ EXCEPT !.amount = @ - n]])

C21_Witness ==
  /\ Answered("h1", "removeByEmail")
  /\ IndexOf(carts[req["h1"].user].items, req["h1"].rec) # 0
  /\ stock[req["h1"].rec] < InitStock

\* C22: a clearCart on an enabled cart that has no items changes nothing:
\* every stock and the cart (items, totalPrice, enabled) are as the request
\* found them, and the request succeeds unless storage fails.
C22_ClearEmptyIsNoOp ==
  \A h \in Handlers :
    Done(h) /\ req[h].op = "clear"
      /\ pre[h].cart.enabled /\ pre[h].cart.items = <<>> =>
      /\ res[h] \in {"ok", "error"}
      /\ stock = pre[h].stock
      /\ carts[req[h].user] = pre[h].cart

C22_Witness ==
  /\ Answered("h1", "clear")
  /\ pre["h1"].cart.enabled /\ pre["h1"].cart.items = <<>>
  /\ \E r \in Records : stock[r] < InitStock

\* The listing old is the tail of the listing new: what was listed is still
\* listed, unchanged, after the newer orders.
EndsWith(new, old) ==
  /\ Len(new) >= Len(old)
  /\ SubSeq(new, Len(new) - Len(old) + 1, Len(new)) = old

\* C23: no step changes a stored order, and the orders that getOrdersByUserId
\* and getAllOrders list keep the amounts, prices and total they were listed
\* with, whatever the step does to the price or the stock of a record.
C23_OrdersImmutable ==
  [][/\ Len(orders') >= Len(orders)
     /\ \A i \in 1..Len(orders) : orders'[i] = orders[i]
     /\ EndsWith(GetAllOrders', GetAllOrders)
     /\ \A u \in Users : EndsWith(GetOrdersByUserId(u)', GetOrdersByUserId(u))]_vars

C23_Witness ==
  /\ Answered("h1", "updateRecord")
  /\ GetAllOrders # <<>>
  /\ \E i \in 1..Len(GetAllOrders[1].items) :
       LET item == GetAllOrders[1].items[i]
       IN item.recordId = req["h1"].rec /\ item.price # price[item.recordId]

\* The request served by h asked for a zero or negative amount.
NonPositive(h) ==
  /\ Done(h)
  /\ req[h].op \in {"add", "removeByEmail", "updateStock"}
  /\ req[h].amount <= 0

\* The request served by h left every stock, and the cart of its user when
\* it has one, as it found them.
NoEffect(h) ==
  /\ stock = pre[h].stock
  /\ Has(req[h], "user") => carts[req[h].user] = pre[h].cart

\* C24 as stated: an addItem, a removal by email or an updateStock with a
\* zero or negative amount is refused as invalid, unless storage fails
\* first, and changes no stock and no cart.
C24_NonPositiveRefused ==
  \A h \in Handlers :
    NonPositive(h) => res[h] \in {"invalid", "error"} /\ NoEffect(h)

\* C24 amended: an addItem or a removal by email with a zero or negative
\* amount is refused as invalid and changes no stock and no cart; an
\* updateStock with amount 0 or -n either succeeds and lowers the stock of its
\* record by n, or fails without effect: for want of stock only when n
\* exceeds the stock, otherwise because storage failed.
C24_SignedStockUpdate ==
  \A h \in Handlers :
    NonPositive(h) =>
      IF req[h].op # "updateStock" THEN res[h] = "invalid" /\ NoEffect(h)
      ELSE IF res[h] = "ok"
        THEN stock = [pre[h].stock EXCEPT ![req[h].rec] = @ + req[h].amount]
      ELSE /\ NoEffect(h)
           /\ res[h] \in {"insufficient", "error"}
           /\ res[h] = "insufficient" =>
                (0 - req[h].amount) > pre[h].stock[req[h].rec]

C24_Witness ==
  /\ NonPositive("h1") /\ req["h1"].op = "add" /\ res["h1"] = "invalid"
  /\ \E r \in Records : stock[r] < InitStock

\* The request served by h had to give back the amount of a line of its
\* user's enabled cart whose record was gone when the request arrived.
ReleasesMissing(h) ==
  /\ Done(h)
  /\ req[h].op \in {"removeByEmail", "remove", "clear"}
  /\ pre[h].cart.enabled
  /\ \E i \in 1..Len(pre[h].cart.items) :
       /\ pre[h].cart.items[i].recordId \notin DOMAIN pre[h].stock
       /\ req[h].op # "clear" => pre[h].cart.items[i].recordId = req[h].rec
  /\ req[h].op = "removeByEmail" =>
       /\ req[h].amount > 0
       /\ req[h].amount <= AmountIn(pre[h].cart.items, req[h].rec)

\* C25: a removal or a clearCart that has to give back the amount of a line
\* whose record no longer exists does not answer with a success.
C25_MissingRecordReported ==
  \A h \in Handlers : ReleasesMissing(h) => res[h] # "ok"

\* C26: in every reachable state every line of every cart, enabled or not,
\* has an amount of at least 1.  (A slot that the database padded with null
\* is not a line.)
C26_AmountAtLeastOne ==
  \A u \in Users :
    \A i \in 1..Len(carts[u].items) :
      carts[u].items[i] # NullItem => carts[u].items[i].amount >= 1

\* The removal of part of a line has given the part back to the stock and is
\* about to save the line with the amount 1 that is left.
C26_Witness ==
  \E u \in Users, h \in Handlers :
    /\ pc[h] = "rme_savecart"
    /\ loc[h].upd.kind = "idx" /\ loc[h].upd.amount = 1
    /\ carts[u].items # <<>>
    /\ carts[u].items[1].amount = MaxAmount
    /\ stock[carts[u].items[1].recordId] = InitStock - MaxAmount + 1

\* The amount of record r in the orders stored after the first n.
RECURSIVE OrderedAfter(_, _)
OrderedAfter(n, r) ==
  IF n >= Len(orders) THEN 0
  ELSE AmountIn(orders[n + 1].items, r) + OrderedAfter(n + 1, r)

C28_DisabledCartIsEmpty ==
  (\A h \in Handlers : Free(h)) =>
    \A u \in Users :
      Exists(carts[u]) /\ ~carts[u].enabled =>
        carts[u].items = <<>> /\ carts[u].totalPrice = 0

\* C29: a clearCart for a user who has no enabled cart (a disabled one or
\* none) is never refused for want of a cart and changes no stock; unless
\* storage fails it succeeds and leaves the user an enabled cart with no items
\* and a totalPrice of 0.
C29_ClearWithoutCartCreates ==
  \A h \in Handlers :
    Done(h) /\ req[h].op = "clear" /\ ~pre[h].cart.enabled =>
      /\ res[h] \in {"ok", "error"}
      /\ stock = pre[h].stock
      /\ res[h] = "ok" => carts[req[h].user] = EmptyCart

C29_Witness ==
  /\ Answered("h1", "clear")
  /\ Exists(pre["h1"].cart) /\ ~pre["h1"].cart.enabled
  /\ pre["h1"].cart.items # <<>>

\* The same for a user who has no cart at all.
C29_WitnessNoCart ==
  Answered("h1", "clear") /\ ~Exists(pre["h1"].cart)

\* The lines of record r in the cart c.
LinesOf(c, r) == {i \in 1..Len(c.items) : c.items[i].recordId = r}

\* C30: no cart ever holds two lines of the same record, also when addItem
\* requests for the same user and record overlap.
C30_OneLinePerRecord ==
  \A u \in Users, r \in Records : Cardinality(LinesOf(carts[u], r)) <= 1

====
